---- MODULE Spec2Model ----
(***************************************************************************)
(* LegendDimensionModel (src/js/legends/legendDimensionModel.js): the      *)
(* size of a chart's legend area.  The model holds the fields set by the   *)
(* constructor, the locals of _makeDividedLabelsAndMaxLineWidth's do-while *)
(* loop, the argument and return value of the last _divideLegendLabels     *)
(* call, and the object returned by makeDimension.                         *)
(***************************************************************************)
EXTENDS Integers, Sequences, FiniteSets, TLC

\* ------------------------------------------------------------------ bounds
\* Longest label sequence handed to the constructor.
MaxLen == 6

\* Largest division count of a direct _divideLegendLabels call: large enough
\* for Math.round(labels.length / count) to reach 0.
MaxCount == 2 * MaxLen + 1

\* Cap of the loop counter in the guards.  The loop of the source never gets
\* there; a loop that failed to stop would park at the cap with pc = "loop".
MaxDivideCount == MaxLen + 2

\* -------------------------------------------------- collaborators (const.js)
LEGEND_AREA_PADDING == 10
LEGEND_CHECKBOX_WIDTH == 20
LEGEND_RECT_WIDTH == 12
LEGEND_LABEL_LEFT_PADDING == 5

\* The result of tui.util.max on an empty array: Math.max of no arguments is
\* -Infinity (an implementation that starts from arr[0] gives undefined).
\* Either value is === to no width and >= no chart width; every real width
\* of the model is >= 0, so -1 compares the same way.
NegInfinity == -1

\* ----------------------------------------------- text-measurement adapter
\* The labels the model draws from and what renderUtil measures for each: a
\* deterministic function of the label (the theme is fixed per instance).
LabelSet == {"", "Tall", "Wide legend"}

getRenderedLabelWidth(label) ==
    CASE label = "" -> 0
      [] label = "Tall" -> 13
      [] label = "Wide legend" -> 33

getRenderedLabelHeight(label) ==
    CASE label = "" -> 12
      [] label = "Tall" -> 20
      [] label = "Wide legend" -> 14

\* ------------------------------------------------------ predicate helpers
AlignModes == {"top", "left", "center"}
ChartTypeLists == {<<"pie">>, <<"bar">>, <<"pie", "bar">>}

isPieTypeChart(chartType) == chartType = "pie"
isPieLegendAlign(align) == align \in {"center", "outer"}
isHorizontalLegend(align) == align \in {"top", "bottom"}

\* ------------------------------------------------------------ tui.util
RECURSIVE sum(_)
sum(values) ==
    IF values = <<>> THEN 0 ELSE Head(values) + sum(Tail(values))

max(arr) ==
    IF arr = <<>> THEN NegInfinity
    ELSE LET S == {arr[i] : i \in 1..Len(arr)}
         IN CHOOSE x \in S : \A y \in S : x >= y

\* Math.floor in the place of Math.round.
MathRoundDown(n, k) == n \div k

\* Math.round of the quotient n / k of two non-negative integers, k >= 1:
\* floor(n / k + 1/2), halves rounded up.
MathRound(n, k) == (2 * n + k) \div (2 * k)

\* ---------------------------------------------------------------- state
VARIABLES
    chartTypes,           \* this.chartTypes
    options,              \* this.options: hasCheckbox, align, hidden
    legendLabels,         \* this.legendLabels
    legendCheckboxWidth,  \* this.legendCheckboxWidth
    pc,                   \* "idle", "loop", "returned", "divided", "done"
    chartWidth,           \* argument of the running call
    divideCount,          \* locals of _makeDividedLabelsAndMaxLineWidth
    maxLineWidth,
    prevMaxWidth,
    dividedLabels,
    prevLabels,
    count,                \* argument of the last _divideLegendLabels call, 0: none yet
    results,              \* return value of the last _divideLegendLabels call
    dimension             \* object returned by makeDimension

vars == <<chartTypes, options, legendLabels, legendCheckboxWidth, pc, chartWidth,
          divideCount, maxLineWidth, prevMaxWidth, dividedLabels, prevLabels,
          count, results, dimension>>

\* A JavaScript variable holding an array of label groups, or undefined.
Undefined == [defined |-> FALSE, groups |-> <<>>]
Defined(groups) == [defined |-> TRUE, groups |-> groups]

\* var dimension = {}
EmptyObject == [field \in {} |-> 0]

\* ------------------------------------------------------- _makeLegendWidth
MakeLegendWidth(labelWidth) ==
    labelWidth + legendCheckboxWidth + LEGEND_RECT_WIDTH
        + LEGEND_LABEL_LEFT_PADDING + LEGEND_AREA_PADDING

CalculateLegendsWidthSum(labels) ==
    sum([i \in 1..Len(labels) |-> MakeLegendWidth(getRenderedLabelWidth(labels[i]))])

\* _divideLegendLabels starting the next group empty: temp = [] for temp = [label].
RECURSIVE DivideForEachDropping(_, _, _, _, _)
DivideForEachDropping(labels, limitCount, i, res, temp) ==
    IF i > Len(labels)
    THEN IF Len(temp) > 0 THEN Append(res, temp) ELSE res
    ELSE IF Len(temp) < limitCount
         THEN DivideForEachDropping(labels, limitCount, i + 1, res, Append(temp, labels[i]))
         ELSE DivideForEachDropping(labels, limitCount, i + 1, Append(res, temp), <<>>)

\* ---------------------------------------------------- _divideLegendLabels
\* The forEachArray callback from label i on, then the trailing push.
RECURSIVE DivideForEach(_, _, _, _, _)
DivideForEach(labels, limitCount, i, res, temp) ==
    IF i > Len(labels)
    THEN IF Len(temp) > 0 THEN Append(res, temp) ELSE res
    ELSE IF Len(temp) < limitCount
         THEN DivideForEach(labels, limitCount, i + 1, res, Append(temp, labels[i]))
         ELSE DivideForEach(labels, limitCount, i + 1, Append(res, temp), <<labels[i]>>)

DivideLegendLabels(labels, divisionCount) ==
    DivideForEach(labels, MathRound(Len(labels), divisionCount), 1, <<>>, <<>>)

\* ------------------------------------------------------- _getMaxLineWidth
GetMaxLineWidth(groups) ==
    max([i \in 1..Len(groups) |-> CalculateLegendsWidthSum(groups[i])])

\* ------------------------------------- _makeDividedLabelsAndMaxLineWidth
\* The locals of the running call, as one record.
Locals ==
    [divideCount |-> divideCount, maxLineWidth |-> maxLineWidth,
     prevMaxWidth |-> prevMaxWidth, dividedLabels |-> dividedLabels,
     prevLabels |-> prevLabels, count |-> count, results |-> results, pc |-> pc]

\* The locals at the entry of the do-while loop.
LoopEntry ==
    [divideCount |-> 1, maxLineWidth |-> 0, prevMaxWidth |-> 0,
     dividedLabels |-> Undefined, prevLabels |-> Undefined,
     count |-> 0, results |-> Undefined, pc |-> "loop"]

\* The loop body without the convergence check (no if ... break).
DoWhileBodyNoConvergence(s, labels, width) ==
    LET divided == DivideLegendLabels(labels, s.divideCount)
        lineWidth == GetMaxLineWidth(divided)
        called == [s EXCEPT !.count = s.divideCount, !.results = Defined(divided)]
    IN [called EXCEPT !.dividedLabels = Defined(divided),
                      !.maxLineWidth = lineWidth,
                      !.prevMaxWidth = lineWidth,
                      !.prevLabels = Defined(divided),
                      !.divideCount = s.divideCount + 1,
                      !.pc = IF lineWidth >= width THEN "loop" ELSE "returned"]

\* The loop body without prevMaxWidth = maxLineWidth: the check compares
\* every width with the initial 0.
DoWhileBodyStaleWidth(s, labels, width) ==
    LET divided == DivideLegendLabels(labels, s.divideCount)
        lineWidth == GetMaxLineWidth(divided)
        called == [s EXCEPT !.count = s.divideCount, !.results = Defined(divided)]
    IN IF s.prevMaxWidth = lineWidth
       THEN [called EXCEPT !.dividedLabels = s.prevLabels,
                           !.maxLineWidth = lineWidth,
                           !.pc = "returned"]
       ELSE [called EXCEPT !.dividedLabels = Defined(divided),
                           !.maxLineWidth = lineWidth,
                           !.prevLabels = Defined(divided),
                           !.divideCount = s.divideCount + 1,
                           !.pc = IF lineWidth >= width THEN "loop" ELSE "returned"]

\* The loop body without dividedLabels = prevLabels before the break.
DoWhileBodyKeepsCurrent(s, labels, width) ==
    LET divided == DivideLegendLabels(labels, s.divideCount)
        lineWidth == GetMaxLineWidth(divided)
        called == [s EXCEPT !.count = s.divideCount, !.results = Defined(divided)]
    IN IF s.prevMaxWidth = lineWidth
       THEN [called EXCEPT !.dividedLabels = Defined(divided),
                           !.maxLineWidth = lineWidth,
                           !.pc = "returned"]
       ELSE [called EXCEPT !.dividedLabels = Defined(divided),
                           !.maxLineWidth = lineWidth,
                           !.prevMaxWidth = lineWidth,
                           !.prevLabels = Defined(divided),
                           !.divideCount = s.divideCount + 1,
                           !.pc = IF lineWidth >= width THEN "loop" ELSE "returned"]

\* One pass through the body of the do-while loop and its while test.
DoWhileBody(s, labels, width) ==
    LET divided == DivideLegendLabels(labels, s.divideCount)
        lineWidth == GetMaxLineWidth(divided)
        called == [s EXCEPT !.count = s.divideCount, !.results = Defined(divided)]
    IN IF s.prevMaxWidth = lineWidth
       THEN [called EXCEPT !.dividedLabels = s.prevLabels,
                           !.maxLineWidth = lineWidth,
                           !.pc = "returned"]
       ELSE [called EXCEPT !.dividedLabels = Defined(divided),
                           !.maxLineWidth = lineWidth,
                           !.prevMaxWidth = lineWidth,
                           !.prevLabels = Defined(divided),
                           !.divideCount = s.divideCount + 1,
                           !.pc = IF lineWidth >= width THEN "loop" ELSE "returned"]

\* The whole loop, from the locals s to the locals at the return statement.
RECURSIVE RunLoop(_, _, _)
RunLoop(s, labels, width) ==
    IF s.pc = "loop" /\ s.divideCount <= MaxDivideCount
    THEN RunLoop(DoWhileBody(s, labels, width), labels, width)
    ELSE s

MakeDividedLabelsAndMaxLineWidth(labels, width) == RunLoop(LoopEntry, labels, width)

SetLocals(s) ==
    /\ divideCount' = s.divideCount
    /\ maxLineWidth' = s.maxLineWidth
    /\ prevMaxWidth' = s.prevMaxWidth
    /\ dividedLabels' = s.dividedLabels
    /\ prevLabels' = s.prevLabels
    /\ count' = s.count
    /\ results' = s.results
    /\ pc' = s.pc

\* ------------------------------------------------------------- inputs
LabelSeqs == UNION {[1..n -> LabelSet] : n \in 0..MaxLen}

\* The loop reads chartWidth only in maxLineWidth >= chartWidth, so the chart
\* widths at and just above every line width the labels can produce, with 0
\* and a width narrower than two labels, stand for every chartWidth >= 0.
ChartWidths ==
    LET lineWidths == {GetMaxLineWidth(DivideLegendLabels(legendLabels, k)) :
                           k \in 1..(Len(legendLabels) + 1)}
    IN {0, 40} \cup {w \in lineWidths : w >= 0} \cup {w + 1 : w \in lineWidths}

\* ------------------------------------------------------------- init
\* The state after the constructor (init) ran with the given parameters.
Construct(labelSeqs, typeLists, aligns, hiddens) ==
    /\ legendLabels \in labelSeqs
    /\ chartTypes \in typeLists
    /\ options \in [hasCheckbox : BOOLEAN, align : aligns, hidden : hiddens]
    /\ legendCheckboxWidth = IF options.hasCheckbox = FALSE THEN 0 ELSE LEGEND_CHECKBOX_WIDTH
    /\ pc = "idle"
    /\ chartWidth = 0
    /\ divideCount = 0
    /\ maxLineWidth = 0
    /\ prevMaxWidth = 0
    /\ dividedLabels = Undefined
    /\ prevLabels = Undefined
    /\ count = 0
    /\ results = Undefined
    /\ dimension = EmptyObject

\* A horizontal legend of a non-pie chart: the instances whose makeDimension
\* runs the partitioning loop.
Init == Construct(LabelSeqs, {<<"bar">>}, {"top"}, {FALSE})

construction == <<chartTypes, options, legendLabels, legendCheckboxWidth>>

\* ------------------------------------------------------------- actions
\* A direct call _divideLegendLabels(this.legendLabels, k).
CallDivideLegendLabels ==
    /\ pc = "idle"
    /\ \E k \in 1..MaxCount :
          /\ count' = k
          /\ results' = Defined(DivideLegendLabels(legendLabels, k))
    /\ pc' = "divided"
    /\ UNCHANGED <<construction, chartWidth, divideCount, maxLineWidth, prevMaxWidth,
                   dividedLabels, prevLabels, dimension>>

\* Entry of _makeDividedLabelsAndMaxLineWidth(this.legendLabels, width).
CallMakeDividedLabelsAndMaxLineWidth ==
    /\ pc = "idle"
    /\ \E width \in ChartWidths : chartWidth' = width
    /\ SetLocals(LoopEntry)
    /\ UNCHANGED <<construction, dimension>>

\* One iteration of the do-while loop; the last one reaches the return.
LoopIteration ==
    /\ pc = "loop"
    /\ divideCount <= MaxDivideCount
    /\ SetLocals(DoWhileBody(Locals, legendLabels, chartWidth))
    /\ UNCHANGED <<construction, chartWidth, dimension>>

Next ==
    \/ CallDivideLegendLabels
    \/ CallMakeDividedLabelsAndMaxLineWidth
    \/ LoopIteration

Spec == Init /\ [][Next]_vars

\* ------------------------------------------------------------ renderUtil
getRenderedLabelsMaxWidth(labels) ==
    IF labels = <<>> THEN 0
    ELSE max([i \in 1..Len(labels) |-> getRenderedLabelWidth(labels[i])])

getRenderedLabelsMaxHeight(labels) ==
    IF labels = <<>> THEN 0
    ELSE max([i \in 1..Len(labels) |-> getRenderedLabelHeight(labels[i])])

\* ------------------------------------------ _calculateHorizontalLegendHeight
CalculateHorizontalLegendHeight(groups) ==
    sum([i \in 1..Len(groups) |-> getRenderedLabelsMaxHeight(groups[i])])

\* _makeHorizontalDimension measuring the height of the partitioning the last
\* _divideLegendLabels call made instead of the one the loop returned.
MakeHorizontalDimensionLastDivided(width) ==
    LET labelsAndMaxWidth == MakeDividedLabelsAndMaxLineWidth(legendLabels, width)
        horizontalLegendHeight ==
            CalculateHorizontalLegendHeight(labelsAndMaxWidth.results.groups)
        legendHeight == horizontalLegendHeight + (LEGEND_AREA_PADDING * 2)
    IN [locals |-> labelsAndMaxWidth,
        dimension |-> [width |-> labelsAndMaxWidth.maxLineWidth, height |-> legendHeight]]

\* ------------------------------------------------- _makeHorizontalDimension
\* The locals the loop returned with, and the dimension made from them.
MakeHorizontalDimension(width) ==
    LET labelsAndMaxWidth == MakeDividedLabelsAndMaxLineWidth(legendLabels, width)
        horizontalLegendHeight ==
            CalculateHorizontalLegendHeight(labelsAndMaxWidth.dividedLabels.groups)
        legendHeight == horizontalLegendHeight + (LEGEND_AREA_PADDING * 2)
    IN [locals |-> labelsAndMaxWidth,
        dimension |-> [width |-> labelsAndMaxWidth.maxLineWidth, height |-> legendHeight]]

\* _makeVerticalDimension returning the text width without _makeLegendWidth.
MakeVerticalDimensionTextOnly ==
    LET maxLabelWidth == getRenderedLabelsMaxWidth(legendLabels)
    IN [width |-> maxLabelWidth, height |-> 0]

\* --------------------------------------------------- _makeVerticalDimension
MakeVerticalDimension ==
    LET maxLabelWidth == getRenderedLabelsMaxWidth(legendLabels)
        legendWidth == MakeLegendWidth(maxLabelWidth)
    IN [width |-> legendWidth, height |-> 0]

\* _isSkipLegend with tui.util.any in the place of tui.util.all.
IsSkipLegendAny ==
    LET isPieTypeCharts == \E i \in 1..Len(chartTypes) : isPieTypeChart(chartTypes[i])
        isPieAlign == isPieLegendAlign(options.align)
    IN (isPieTypeCharts /\ isPieAlign) \/ options.hidden

\* ------------------------------------------------------------ _isSkipLegend
IsSkipLegend ==
    LET isPieTypeCharts == \A i \in 1..Len(chartTypes) : isPieTypeChart(chartTypes[i])
        isPieAlign == isPieLegendAlign(options.align)
    IN (isPieTypeCharts /\ isPieAlign) \/ options.hidden

\* ------------------------------------------------------------ makeDimension
\* The whole of makeDimension(width), the partitioning loop included.
MakeDimension ==
    /\ pc = "idle"
    /\ \E width \in ChartWidths :
          /\ chartWidth' = width
          /\ IF IsSkipLegend
             THEN /\ dimension' = [width |-> 0]
                  /\ SetLocals([Locals EXCEPT !.pc = "done"])
             ELSE IF isHorizontalLegend(options.align)
             THEN LET made == MakeHorizontalDimension(width)
                  IN /\ dimension' = made.dimension
                     /\ SetLocals([made.locals EXCEPT !.pc = "done"])
             ELSE /\ dimension' = MakeVerticalDimension
                  /\ SetLocals([Locals EXCEPT !.pc = "done"])
    /\ UNCHANGED construction

\* Every legend the constructor accepts.
InitDimension == Construct(LabelSeqs, ChartTypeLists, AlignModes, BOOLEAN)

NextDimension == MakeDimension

SpecDimension == InitDimension /\ [][NextDimension]_vars

\* ============================================================== claims
\* The groups concatenated in order.
RECURSIVE Flatten(_)
Flatten(groups) ==
    IF groups = <<>> THEN <<>> ELSE Head(groups) \o Flatten(Tail(groups))

RECURSIVE SumOfSizes(_)
SumOfSizes(groups) ==
    IF groups = <<>> THEN 0 ELSE Len(Head(groups)) + SumOfSizes(Tail(groups))

Reconstructs(d) ==
    /\ d.defined
    /\ Flatten(d.groups) = legendLabels
    /\ SumOfSizes(d.groups) = Len(legendLabels)

\* C1: the groups _divideLegendLabels returns for any division count k >= 1,
\* concatenated in order, are the input labels (each label in exactly one
\* group, order kept, sizes summing to the number of labels), and so are the
\* dividedLabels _makeDividedLabelsAndMaxLineWidth returns for a non-empty
\* label sequence.
C1_GroupsReconstructLabels ==
    /\ count >= 1 => Reconstructs(results)
    /\ (pc = "returned" /\ legendLabels # <<>>) => Reconstructs(dividedLabels)

\* The loop returned three or more groups of five or more labels, not all the
\* same label.
C1_Witness ==
    /\ pc = "returned"
    /\ Len(legendLabels) >= 5
    /\ legendLabels[1] # legendLabels[2]
    /\ dividedLabels.defined
    /\ Len(dividedLabels.groups) >= 3
    /\ count >= 3

\* C2: the do-while loop terminates for every label sequence and every chart
\* width (0 included): each iteration either reaches the return statement or
\* raises divideCount by one, and divideCount never passes len(labels) + 1
\* while the loop goes on, so at most len(labels) + 1 iterations run (and the
\* cap MaxDivideCount is never what stops one).
C2_LoopTerminates ==
    [][pc = "loop" =>
          \/ pc' = "returned"
          \/ /\ pc' = "loop"
             /\ divideCount' = divideCount + 1
             /\ divideCount' <= Len(legendLabels) + 1
             /\ divideCount' <= MaxDivideCount]_vars

\* The loop returned for chartWidth = 0 with labels wider than the chart.
C2_Witness ==
    /\ pc = "returned"
    /\ chartWidth = 0
    /\ legendLabels # <<>>
    /\ maxLineWidth >= chartWidth
    /\ count >= 2

\* C3: an iteration at division count k >= 2 that computes the same
\* maxLineWidth as k - 1 did ends the loop at once, with the partitioning of
\* k - 1 and that width, whatever the chart width.
C3_ConvergenceReturnsPrevious ==
    [][(/\ pc = "loop"
        /\ divideCount >= 2
        /\ GetMaxLineWidth(DivideLegendLabels(legendLabels, divideCount))
             = GetMaxLineWidth(DivideLegendLabels(legendLabels, divideCount - 1)))
       => (/\ pc' = "returned"
           /\ dividedLabels' = Defined(DivideLegendLabels(legendLabels, divideCount - 1))
           /\ maxLineWidth' = GetMaxLineWidth(DivideLegendLabels(legendLabels, divideCount - 1)))]_vars

\* A convergence stop on a width still >= chartWidth, where the partitioning
\* of k - 1 that is returned differs from the one computed at k.
C3_Witness ==
    /\ pc = "returned"
    /\ count = divideCount
    /\ divideCount >= 2
    /\ maxLineWidth >= chartWidth
    /\ chartWidth > 0
    /\ dividedLabels = Defined(DivideLegendLabels(legendLabels, count - 1))
    /\ dividedLabels # results

\* C4: when some division count k in 1..len(labels) gives a partitioning no
\* wider than the chart, the returned width does not exceed the chart width.
C4_FitsWhenAchievable ==
    (/\ pc = "returned"
     /\ legendLabels # <<>>
     /\ \E k \in 1..Len(legendLabels) :
           GetMaxLineWidth(DivideLegendLabels(legendLabels, k)) <= chartWidth)
    => maxLineWidth <= chartWidth

\* C8 (as stated): the loop never calls _divideLegendLabels with a division
\* count above len(labels).
C8_CountWithinLength ==
    (pc \in {"loop", "returned"} /\ legendLabels # <<>>) => count <= Len(legendLabels)

\* C8 (amended): the loop never calls _divideLegendLabels with a division
\* count above len(labels) + 1.
C8_CountWithinLengthPlusOne ==
    (pc \in {"loop", "returned"} /\ legendLabels # <<>>) => count <= Len(legendLabels) + 1

\* The loop called _divideLegendLabels with len(labels) + 1.
C8_Witness ==
    /\ pc = "returned"
    /\ Len(legendLabels) >= 2
    /\ count = Len(legendLabels) + 1

\* r = Math.round(n / k), stated without the model's MathRound.
IsRounded(r, n, k) == 2 * k * r <= 2 * n + k /\ 2 * n + k < 2 * k * (r + 1)

\* Every group but the last holds size labels, the last between 1 and size.
GroupsOfSize(groups, size) ==
    /\ \A i \in 1..(Len(groups) - 1) : Len(groups[i]) = size
    /\ Len(groups) >= 1
    /\ Len(groups[Len(groups)]) \in 1..size

\* C9 (as stated): for 1 <= k <= len(labels), _divideLegendLabels returns
\* exactly k contiguous groups, all but the last of round(len / k) labels and
\* the last of 1..round(len / k); k = 1 gives one group of all labels.
C9_ExactlyCountGroups ==
    (count \in 1..Len(legendLabels)) =>
        /\ results.defined
        /\ Len(results.groups) = count
        /\ \E r \in 1..Len(legendLabels) :
              IsRounded(r, Len(legendLabels), count) /\ GroupsOfSize(results.groups, r)
        /\ Flatten(results.groups) = legendLabels
        /\ count = 1 => results.groups = <<legendLabels>>

\* C9 (amended): for 1 <= k <= len(labels), with r = round(len / k),
\* _divideLegendLabels returns ceil(len / r) contiguous groups (which need not
\* be k), all but the last of r labels and the last of 1..r; k = 1 gives one
\* group of all labels.
C9_GroupsOfRoundedSize ==
    (count \in 1..Len(legendLabels)) =>
        /\ results.defined
        /\ \E r \in 1..Len(legendLabels) :
              /\ IsRounded(r, Len(legendLabels), count)
              /\ GroupsOfSize(results.groups, r)
              /\ (Len(results.groups) - 1) * r < Len(legendLabels)
              /\ Len(legendLabels) <= Len(results.groups) * r
        /\ Flatten(results.groups) = legendLabels
        /\ count = 1 => results.groups = <<legendLabels>>

\* A direct call with 2 <= k <= len(labels) that returned more groups than k.
C9_Witness ==
    /\ pc = "divided"
    /\ count \in 2..Len(legendLabels)
    /\ Len(results.groups) > count

\* C10: for an empty label sequence the loop returns a defined, empty
\* partitioning and maxLineWidth = 0.
C10_EmptyLabels ==
    (pc = "returned" /\ legendLabels = <<>>) =>
        /\ dividedLabels.defined
        /\ dividedLabels.groups \in {<<>>, << <<>> >>}
        /\ maxLineWidth = 0

\* The skip policy, stated on the constructor's fields.
SkipCase ==
    \/ options.hidden
    \/ /\ \A i \in 1..Len(chartTypes) : chartTypes[i] = "pie"
       /\ options.align \in {"center", "outer"}

HorizontalCase == ~SkipCase /\ options.align \in {"top", "bottom"}

VerticalCase == ~SkipCase /\ ~(options.align \in {"top", "bottom"})

\* C5: makeDimension returns width = 0 and no height, and runs no
\* partitioning, when options.hidden is true or every chart type is pie-family
\* and the alignment is a pie alignment; in every other case the result has
\* both width and height.
C5_SkipLegend ==
    pc = "done" =>
        IF SkipCase
        THEN /\ DOMAIN dimension = {"width"}
             /\ dimension.width = 0
             /\ count = 0
             /\ divideCount = 0
             /\ results = Undefined
             /\ dividedLabels = Undefined
        ELSE DOMAIN dimension = {"width", "height"}

\* A pie chart with a pie alignment, not hidden, with labels and a positive
\* chart width, got the width-only result.
C5_Witness ==
    /\ pc = "done"
    /\ ~options.hidden
    /\ chartTypes = <<"pie">>
    /\ options.align = "center"
    /\ Len(legendLabels) >= 2
    /\ chartWidth > 0
    /\ DOMAIN dimension = {"width"}

\* The footprint of one label: text width + checkbox width + marker width +
\* label left padding + area padding.
Footprint(label) ==
    getRenderedLabelWidth(label)
        + (IF options.hasCheckbox = FALSE THEN 0 ELSE LEGEND_CHECKBOX_WIDTH)
        + LEGEND_RECT_WIDTH + LEGEND_LABEL_LEFT_PADDING + LEGEND_AREA_PADDING

\* x is the largest footprint of the labels.
IsLargestFootprint(x, labels) ==
    /\ \A i \in 1..Len(labels) : Footprint(labels[i]) <= x
    /\ \E i \in 1..Len(labels) : Footprint(labels[i]) = x

\* C6: with no skip and a non-horizontal alignment, makeDimension returns
\* height = 0 and width = the largest footprint over the full label sequence,
\* whatever the chart width.
C6_VerticalDimension ==
    (pc = "done" /\ VerticalCase /\ legendLabels # <<>>) =>
        /\ DOMAIN dimension = {"width", "height"}
        /\ dimension.height = 0
        /\ IsLargestFootprint(dimension.width, legendLabels)

\* A vertical legend with a checkbox whose widest label is not the first one.
C6_Witness ==
    /\ pc = "done"
    /\ VerticalCase
    /\ options.hasCheckbox
    /\ Len(legendLabels) >= 3
    /\ legendLabels[1] = ""
    /\ legendLabels[3] = "Wide legend"
    /\ chartWidth > 0
    /\ dimension.width = 80

RECURSIVE LineFootprint(_)
LineFootprint(group) ==
    IF group = <<>> THEN 0 ELSE Footprint(Head(group)) + LineFootprint(Tail(group))

\* x is the largest cumulative footprint of the line groups.
IsWidestLine(x, groups) ==
    /\ \A i \in 1..Len(groups) : LineFootprint(groups[i]) <= x
    /\ \E i \in 1..Len(groups) : LineFootprint(groups[i]) = x

\* The tallest rendered label of a line group, 0 for an empty group.
TallestIn(group) ==
    IF group = <<>> THEN 0
    ELSE CHOOSE h \in {getRenderedLabelHeight(group[i]) : i \in 1..Len(group)} :
             \A i \in 1..Len(group) : getRenderedLabelHeight(group[i]) <= h

RECURSIVE HeightOfLines(_)
HeightOfLines(groups) ==
    IF groups = <<>> THEN 0 ELSE TallestIn(Head(groups)) + HeightOfLines(Tail(groups))

\* C7: with no skip and a horizontal alignment, makeDimension returns width =
\* the largest cumulative footprint over the line groups the loop returned
\* (also after a convergence stop), and height = the sum over those groups of
\* the tallest label height plus 2 * LEGEND_AREA_PADDING.
C7_HorizontalDimension ==
    (pc = "done" /\ HorizontalCase) =>
        /\ DOMAIN dimension = {"width", "height"}
        /\ dividedLabels.defined
        /\ (dividedLabels.groups # <<>>) =>
              IsWidestLine(dimension.width, dividedLabels.groups)
        /\ dimension.height = HeightOfLines(dividedLabels.groups) + 2 * LEGEND_AREA_PADDING

\* A horizontal legend sized after a convergence stop, with lines of different
\* heights, where the partitioning of the last _divideLegendLabels call is not
\* the returned one.
C7_Witness ==
    /\ pc = "done"
    /\ HorizontalCase
    /\ count = divideCount
    /\ count >= 2
    /\ dividedLabels # results
    /\ Len(dividedLabels.groups) >= 2
    /\ TallestIn(dividedLabels.groups[1]) # TallestIn(dividedLabels.groups[2])
    /\ HeightOfLines(dividedLabels.groups) # HeightOfLines(results.groups)

====
